---- MODULE Spec2Model ----
(***************************************************************************)
(* A model of Digital_chronical_backend.py: the ChroniclerConfig           *)
(* credential rotation and the DigitalChronicler orchestrator              *)
(* (run_cycle, process_direct_input, generate_similar_articles).           *)
(*                                                                         *)
(* Python strings are TLA+ strings; f-strings are concatenations (\o).     *)
(* Python's None is the value None below.  The wall clock                  *)
(* (datetime.datetime.now()) is the variable now, advanced by Tick.        *)
(***************************************************************************)
EXTENDS Integers, Sequences, FiniteSets, TLC

(***************************************************************************)
(* Bounds of the model.                                                    *)
(***************************************************************************)
MaxTokens == 3      \* longest credential list a configuration is built with
MaxCalls == 4       \* calls made on the two objects in one behaviour
MaxTime == 1        \* clock ticks in one behaviour

(***************************************************************************)
(* Inputs.                                                                 *)
(***************************************************************************)
Tokens == {"", "gsk_a"}                    \* credential strings ("" = unset)
Titles == {"", "Quake"}
Topics == {"general", "Direct Input"}
Contents == {"", "Lava flows."}
Seeds == {"", "Quantum Computing"}
Responses == {"", "R"}                     \* response.content of the adapter

RECURSIVE SeqsUpTo(_, _)
SeqsUpTo(S, n) ==
    IF n = 0 THEN {<<>>}
    ELSE LET shorter == SeqsUpTo(S, n - 1)
         IN  shorter \cup {Append(s, x) : s \in shorter, x \in S}

TokenLists == SeqsUpTo(Tokens, MaxTokens)

None == [None |-> TRUE]

\* Python's `sub in s` on strings.
Contains(s, sub) ==
    \E i \in 0..(Len(s) - Len(sub)) : SubSeq(s, i + 1, i + Len(sub)) = sub

\* datetime.isoformat() of the model's clock values: distinct instants give
\* distinct strings.
isoformat(t) == "2024-01-01T00:00:0" \o ToString(t)

VARIABLES
    groq_api_tokens,      \* ChroniclerConfig.groq_api_tokens of a configuration
    current_token_index,  \* ChroniclerConfig.current_token_index of it
    env_groq_api_key,     \* os.environ.get("GROQ_API_KEY", "")
    model,                \* DigitalChronicler.model: TRUE = a ChatGroq, FALSE = None
    articles_generated,   \* DigitalChronicler.articles_generated
    articles_researched,  \* DigitalChronicler.articles_researched
    generated_articles,   \* DigitalChronicler.generated_articles
    researched_stories,   \* DigitalChronicler.researched_stories
    now,                  \* datetime.datetime.now()
    error_log,            \* number of logger.error records emitted
    adapter_calls,        \* number of model.invoke calls made
    ctor_failed,          \* ChatGroq(...) raised inside __init__
    calls,                \* number of calls made so far
    last,                 \* the last call: [op, args, ret], and for
                          \* process_direct_input what model.invoke did
    cycle_total,          \* sum of the lengths of the lists run_cycle returned
    rot_start,            \* current_token_index before the current run of rotations
    rot_count             \* length of the current run of consecutive rotations

vars == <<groq_api_tokens, current_token_index, env_groq_api_key, model,
          articles_generated, articles_researched, generated_articles,
          researched_stories, now, error_log, adapter_calls, ctor_failed,
          calls, last, cycle_total, rot_start, rot_count>>

config == <<groq_api_tokens, current_token_index>>
counters == <<articles_generated, articles_researched>>
lists == <<generated_articles, researched_stories>>
orchestrator == <<articles_generated, articles_researched,
                  generated_articles, researched_stories>>
rotation == <<rot_start, rot_count>>

(***************************************************************************)
(* ChroniclerConfig                                                        *)
(***************************************************************************)
get_current_groq_token_none(tokens, index) ==
    IF tokens = <<>> THEN "None" ELSE tokens[index + 1]

get_current_groq_token(tokens, index) ==
    IF tokens = <<>> THEN "" ELSE tokens[index + 1]

next_token_index_short(tokens, index) ==
    IF Len(tokens) > 1 THEN (index + 1) % (Len(tokens) - 1) ELSE index

\* The index rotate_groq_token leaves in current_token_index.
next_token_index(tokens, index) ==
    IF Len(tokens) > 1 THEN (index + 1) % Len(tokens) ELSE index

(***************************************************************************)
(* DigitalChronicler                                                       *)
(***************************************************************************)
model_after_init_keep(key, ctor_ok) == key # ""

\* self.model after __init__: a ChatGroq only if the token is non-empty
\* (truthy) and the constructor did not raise.
model_after_init(key, ctor_ok) == key # "" /\ ctor_ok

log_error_twice(n) == n + 2

\* logger.error(...)
log_error(n) == n + 1

sample_articles_empty(ts) == <<>>

sample_articles(ts) ==
    << [generated_title |-> "AI Revolution in News Generation",
        generated_content |-> "The Digital Chronicler represents a new era in automated journalism, where artificial intelligence transforms raw news data into compelling narratives. This innovative platform demonstrates the potential of AI to enhance rather than replace human journalism.",
        topic |-> "technology",
        source_name |-> "Demo Source",
        url |-> "https://example.com",
        generation_timestamp |-> isoformat(ts),
        image_url |-> ""] >>

generated_after_cycle_assign(n, articles) == Len(articles)

\* self.articles_generated += len(sample_articles)
generated_after_cycle(n, articles) == n + Len(articles)

fallback_record_fixed_topic(title, topic, content, ts) ==
    [generated_title |-> "Custom Article: " \o title,
     generated_content |-> "**" \o title \o "**\n\n" \o content
         \o "\n\nThis article was created using the Digital Chronicler platform.",
     topic |-> "general",
     source_name |-> "Direct Input",
     url |-> "",
     generation_timestamp |-> isoformat(ts),
     image_url |-> ""]

fallback_record_no_content(title, topic, content, ts) ==
    [generated_title |-> "Custom Article: " \o title,
     generated_content |-> "**" \o title
         \o "**\n\nThis article was created using the Digital Chronicler platform.",
     topic |-> topic,
     source_name |-> "Direct Input",
     url |-> "",
     generation_timestamp |-> isoformat(ts),
     image_url |-> ""]

\* process_direct_input without a model.
fallback_record(title, topic, content, ts) ==
    [generated_title |-> "Custom Article: " \o title,
     generated_content |-> "**" \o title \o "**\n\n" \o content
         \o "\n\nThis article was created using the Digital Chronicler platform.",
     topic |-> topic,
     source_name |-> "Direct Input",
     url |-> "",
     generation_timestamp |-> isoformat(ts),
     image_url |-> ""]

prompt(title, topic, content) ==
    "Transform this user input into a well-structured article:\n\nTitle: "
        \o title \o "\nTopic: " \o topic \o "\nContent: " \o content
        \o "\n\nCreate an engaging article with proper formatting and structure."

enhanced_record_custom_title(title, topic, content, ts) ==
    [generated_title |-> "Custom Article: " \o title,
     generated_content |-> content,
     topic |-> topic,
     source_name |-> "Direct Input",
     url |-> "",
     generation_timestamp |-> isoformat(ts),
     image_url |-> ""]

\* process_direct_input with a model whose invocation returned `content`.
enhanced_record(title, topic, content, ts) ==
    [generated_title |-> title,
     generated_content |-> content,
     topic |-> topic,
     source_name |-> "Direct Input",
     url |-> "",
     generation_timestamp |-> isoformat(ts),
     image_url |-> ""]

similar_articles_query_title(article_name, ts) ==
    << [generated_title |-> "Related Story: " \o article_name \o " Analysis",
        generated_content |-> "This article explores topics related to '"
            \o article_name
            \o "' and provides additional context and analysis on the subject matter.",
        topic |-> "general",
        source_name |-> "Similar Articles Search",
        url |-> "https://example.com",
        generation_timestamp |-> isoformat(ts),
        image_url |-> "",
        search_query |-> "Related Story: " \o article_name \o " Analysis"] >>

similar_articles(article_name, ts) ==
    << [generated_title |-> "Related Story: " \o article_name \o " Analysis",
        generated_content |-> "This article explores topics related to '"
            \o article_name
            \o "' and provides additional context and analysis on the subject matter.",
        topic |-> "general",
        source_name |-> "Similar Articles Search",
        url |-> "https://example.com",
        generation_timestamp |-> isoformat(ts),
        image_url |-> "",
        search_query |-> article_name] >>

(***************************************************************************)
(* Initial state: a configuration built with some credential list, and a   *)
(* DigitalChronicler built by __init__ in some environment.  The           *)
(* chronicler's own configuration is the default one, whose only           *)
(* credential is the environment's GROQ_API_KEY.                           *)
(***************************************************************************)
Init ==
    /\ groq_api_tokens \in TokenLists
    /\ current_token_index = 0
    /\ env_groq_api_key \in Tokens
    /\ \E ctor_ok \in BOOLEAN :
          /\ model = model_after_init(
                        get_current_groq_token(<<env_groq_api_key>>, 0), ctor_ok)
          /\ ctor_failed = (env_groq_api_key # "" /\ ~ctor_ok)
          /\ error_log = IF env_groq_api_key # "" /\ ~ctor_ok
                         THEN log_error(0) ELSE 0
    /\ articles_generated = 0
    /\ articles_researched = 0
    /\ generated_articles = <<>>
    /\ researched_stories = <<>>
    /\ now = 0
    /\ adapter_calls = 0
    /\ calls = 0
    /\ last = [op |-> "__init__", args |-> <<>>, ret |-> None]
    /\ cycle_total = 0
    /\ rot_start = 0
    /\ rot_count = 0

Called == calls' = calls + 1

(***************************************************************************)
(* ChroniclerConfig.get_current_groq_token()                               *)
(***************************************************************************)
GetCurrentGroqToken ==
    /\ calls < MaxCalls
    /\ Called
    /\ last' = [op |-> "get_current_groq_token", args |-> <<>>,
                ret |-> get_current_groq_token(groq_api_tokens,
                                               current_token_index)]
    /\ rot_count' = 0
    /\ rot_start' = current_token_index
    /\ UNCHANGED <<config, env_groq_api_key, model, orchestrator, now,
                   error_log, adapter_calls, ctor_failed, cycle_total>>

(***************************************************************************)
(* ChroniclerConfig.rotate_groq_token()                                    *)
(***************************************************************************)
RotateGroqToken ==
    /\ calls < MaxCalls
    /\ Called
    /\ current_token_index' =
          next_token_index(groq_api_tokens, current_token_index)
    /\ last' = [op |-> "rotate_groq_token", args |-> <<>>,
                ret |-> get_current_groq_token(groq_api_tokens,
                                               current_token_index')]
    /\ rot_start' = IF rot_count = 0 THEN current_token_index ELSE rot_start
    /\ rot_count' = rot_count + 1
    /\ UNCHANGED <<groq_api_tokens, env_groq_api_key, model, orchestrator,
                   now, error_log, adapter_calls, ctor_failed, cycle_total>>

(***************************************************************************)
(* DigitalChronicler.run_cycle()                                           *)
(***************************************************************************)
RunCycle ==
    /\ calls < MaxCalls
    /\ Called
    /\ LET articles == sample_articles(now)
       IN  /\ articles_generated' =
                 generated_after_cycle(articles_generated, articles)
           /\ last' = [op |-> "run_cycle", args |-> <<>>, ret |-> articles]
           /\ cycle_total' = cycle_total + Len(articles)
    /\ UNCHANGED <<config, env_groq_api_key, model, articles_researched,
                   lists, now, error_log, adapter_calls, ctor_failed,
                   rotation>>

(***************************************************************************)
(* DigitalChronicler.process_direct_input(title, topic, content)           *)
(***************************************************************************)
DirectInputFallback(title, topic, content) ==
    /\ ~model
    /\ last' = [op |-> "process_direct_input",
                args |-> <<title, topic, content>>,
                invoke |-> "not invoked",
                ret |-> fallback_record(title, topic, content, now)]
    /\ UNCHANGED <<error_log, adapter_calls>>

DirectInputEnhanced(title, topic, content) ==
    /\ model
    /\ adapter_calls' = adapter_calls + 1
    /\ \E response \in Responses :
          last' = [op |-> "process_direct_input",
                   args |-> <<title, topic, content>>,
                   invoke |-> "returned",
                   prompt |-> prompt(title, topic, content),
                   response |-> response,
                   ret |-> enhanced_record(title, topic, response, now)]
    /\ UNCHANGED error_log

DirectInputRaises(title, topic, content) ==
    /\ model
    /\ adapter_calls' = adapter_calls + 1
    /\ error_log' = log_error(error_log)
    /\ last' = [op |-> "process_direct_input",
                args |-> <<title, topic, content>>,
                invoke |-> "raised",
                prompt |-> prompt(title, topic, content),
                ret |-> None]

ProcessDirectInput ==
    /\ calls < MaxCalls
    /\ Called
    /\ \E title \in Titles, topic \in Topics, content \in Contents :
          \/ DirectInputFallback(title, topic, content)
          \/ DirectInputEnhanced(title, topic, content)
          \/ DirectInputRaises(title, topic, content)
    /\ UNCHANGED <<config, env_groq_api_key, model, orchestrator, now,
                   ctor_failed, cycle_total, rotation>>

(***************************************************************************)
(* DigitalChronicler.generate_similar_articles(article_name)               *)
(***************************************************************************)
GenerateSimilarArticles ==
    /\ calls < MaxCalls
    /\ Called
    /\ \E article_name \in Seeds :
          last' = [op |-> "generate_similar_articles",
                   args |-> <<article_name>>,
                   ret |-> similar_articles(article_name, now)]
    /\ UNCHANGED <<config, env_groq_api_key, model, orchestrator, now,
                   error_log, adapter_calls, ctor_failed, cycle_total,
                   rotation>>

(***************************************************************************)
(* Time passes between calls.                                              *)
(***************************************************************************)
Tick ==
    /\ now < MaxTime
    /\ now' = now + 1
    /\ UNCHANGED <<config, env_groq_api_key, model, orchestrator, error_log,
                   adapter_calls, ctor_failed, calls, last, cycle_total,
                   rotation>>

Next ==
    \/ GetCurrentGroqToken
    \/ RotateGroqToken
    \/ RunCycle
    \/ ProcessDirectInput
    \/ GenerateSimilarArticles
    \/ Tick

Spec == Init /\ [][Next]_vars

TypeOK ==
    /\ groq_api_tokens \in TokenLists
    /\ current_token_index \in 0..MaxTokens
    /\ model \in BOOLEAN
    /\ articles_generated \in Nat
    /\ calls \in 0..MaxCalls

(***************************************************************************)
(* Steps that are a call of one operation.                                 *)
(***************************************************************************)
CallOf(op) == calls' = calls + 1 /\ last'.op = op

GenerationCall ==
    \/ CallOf("run_cycle")
    \/ CallOf("process_direct_input")
    \/ CallOf("generate_similar_articles")

\* C1: with N >= 2 credentials, N rotations in a row (or any multiple of N)
\* bring current_token_index and the current credential back to what they
\* were before the first of them; with N <= 1 credentials, rotations leave
\* current_token_index where it was and return what get_current_groq_token
\* returned before them.
C1_RotationRoundTrip ==
    LET n == Len(groq_api_tokens)
        before == get_current_groq_token(groq_api_tokens, rot_start)
    IN  /\ (n >= 2 /\ rot_count > 0 /\ rot_count % n = 0) =>
              /\ current_token_index = rot_start
              /\ get_current_groq_token(groq_api_tokens, current_token_index)
                    = before
              /\ last.op = "rotate_groq_token" => last.ret = before
        /\ (n <= 1 /\ rot_count > 0) =>
              /\ current_token_index = rot_start
              /\ last.op = "rotate_groq_token" => last.ret = before

C1_Witness ==
    /\ Len(groq_api_tokens) = 3
    /\ groq_api_tokens[1] # groq_api_tokens[2]
    /\ rot_count = 3
    /\ last.op = "rotate_groq_token"

\* C2: on an empty credential list, every get_current_groq_token and
\* rotate_groq_token call returns "" and leaves current_token_index
\* unchanged, whatever calls came before.
C2_EmptyListReturnsEmpty ==
    [][(groq_api_tokens = <<>>
          /\ (CallOf("get_current_groq_token") \/ CallOf("rotate_groq_token")))
        => (last'.ret = "" /\ current_token_index' = current_token_index)]_vars

C2_Witness ==
    /\ groq_api_tokens = <<>>
    /\ last.op = "rotate_groq_token"
    /\ last.ret = ""
    /\ rot_count >= 2

\* C3: without a model, process_direct_input returns a record whose
\* generated_content contains the title and the content and whose
\* source_name is "Direct Input", and model.invoke is not called.
C3_FallbackRecord ==
    [][(CallOf("process_direct_input") /\ ~model) =>
          /\ last'.ret # None
          /\ Contains(last'.ret.generated_content, last'.args[1])
          /\ Contains(last'.ret.generated_content, last'.args[3])
          /\ last'.ret.source_name = "Direct Input"
          /\ last'.invoke = "not invoked"
          /\ adapter_calls' = adapter_calls]_vars

C3_Witness ==
    /\ last.op = "process_direct_input"
    /\ ~model
    /\ last.args[1] = "Quake"
    /\ last.args[3] = "Lava flows."
    /\ last.ret.source_name = "Direct Input"

\* C4: with a model whose invocation raises, process_direct_input returns
\* None and emits exactly one error log record.
C4_InvokeFailure ==
    [][(CallOf("process_direct_input") /\ model /\ last'.invoke = "raised") =>
          /\ last'.ret = None
          /\ error_log' = error_log + 1]_vars

C4_Witness ==
    /\ last.op = "process_direct_input"
    /\ model
    /\ last.invoke = "raised"
    /\ last.ret = None
    /\ error_log = 1

\* C5 as claimed: after a failed construction of the adapter,
\* process_direct_input returns None.
C5_Original ==
    (ctor_failed /\ last.op = "process_direct_input") => last.ret = None

\* C5 amended: after a failed construction of the adapter (logged once by
\* __init__) the model is absent, and process_direct_input returns the
\* fallback record without invoking an adapter or logging an error.
C5_ConstructionFailureFallsBack ==
    ctor_failed =>
        /\ ~model
        /\ adapter_calls = 0
        /\ error_log = 1
        /\ last.op = "process_direct_input" =>
              /\ last.ret # None
              /\ last.invoke = "not invoked"
              /\ last.ret.generated_title = "Custom Article: " \o last.args[1]
              /\ last.ret.source_name = "Direct Input"

C5_Witness ==
    /\ ctor_failed
    /\ env_groq_api_key # ""
    /\ last.op = "process_direct_input"
    /\ last.ret # None

\* C6: every run_cycle call returns a non-empty list and adds its length to
\* articles_generated, and articles_generated is always the sum of the
\* lengths of the lists run_cycle has returned.
C6_RunCycleCounts ==
    /\ [](articles_generated = cycle_total)
    /\ [][CallOf("run_cycle") =>
            /\ Len(last'.ret) > 0
            /\ articles_generated' = articles_generated + Len(last'.ret)]_vars

C6_Witness ==
    /\ last.op = "run_cycle"
    /\ articles_generated = 2
    /\ cycle_total = 2

\* C7 as claimed: every generation call changes the counters or the lists.
C7_Original ==
    [][GenerationCall => orchestrator' # orchestrator]_vars

\* C7 amended: of the generation calls only run_cycle changes the
\* orchestrator state, and it changes articles_generated alone;
\* process_direct_input and generate_similar_articles leave the counters
\* and the lists unchanged.
C7_OnlyRunCycleMutates ==
    [][/\ CallOf("run_cycle") =>
             /\ articles_generated' # articles_generated
             /\ UNCHANGED <<articles_researched, lists>>
       /\ (CallOf("process_direct_input")
             \/ CallOf("generate_similar_articles")) =>
             UNCHANGED orchestrator]_vars

C7_Witness ==
    /\ articles_generated = 1
    /\ last.op \in {"process_direct_input", "generate_similar_articles"}
    /\ generated_articles = <<>>
    /\ calls >= 3

\* C8 as claimed: without a model the record's topic is "Direct Input".
C8_Original ==
    (last.op = "process_direct_input" /\ ~model) =>
        /\ last.ret.topic = "Direct Input"
        /\ last.ret.source_name = "Direct Input"

\* C8 amended: without a model the record's source_name is "Direct Input"
\* and its topic is the topic the caller passed.
C8_TopicPassedThrough ==
    (last.op = "process_direct_input" /\ ~model) =>
        /\ last.ret.topic = last.args[2]
        /\ last.ret.source_name = "Direct Input"

C8_Witness ==
    /\ last.op = "process_direct_input"
    /\ ~model
    /\ last.args[2] = "Direct Input"
    /\ last.ret.topic = "Direct Input"

\* C9: generate_similar_articles returns exactly one record whose title and
\* content contain the seed and whose search_query is the seed, and never
\* calls model.invoke, with or without a model.
C9_SimilarArticles ==
    [][CallOf("generate_similar_articles") =>
          /\ Len(last'.ret) = 1
          /\ Contains(last'.ret[1].generated_title, last'.args[1])
          /\ Contains(last'.ret[1].generated_content, last'.args[1])
          /\ last'.ret[1].search_query = last'.args[1]
          /\ adapter_calls' = adapter_calls]_vars

C9_Witness ==
    /\ last.op = "generate_similar_articles"
    /\ model
    /\ last.args[1] = "Quantum Computing"
    /\ last.ret[1].search_query = "Quantum Computing"

\* C10: with a model, each process_direct_input call invokes it exactly
\* once; when the invocation returns, the record keeps the title and the
\* topic and its content is the returned text.
C10_InvokedOnce ==
    [][(CallOf("process_direct_input") /\ model) =>
          /\ adapter_calls' = adapter_calls + 1
          /\ last'.invoke \in {"returned", "raised"}
          /\ last'.invoke = "returned" =>
                /\ last'.ret # None
                /\ last'.ret.generated_title = last'.args[1]
                /\ last'.ret.generated_content = last'.response
                /\ last'.ret.topic = last'.args[2]]_vars

C10_Witness ==
    /\ last.op = "process_direct_input"
    /\ model
    /\ last.invoke = "returned"
    /\ last.args[1] = "Quake"
    /\ last.response = "R"
    /\ adapter_calls = 2
====
